---- MODULE Spec2Model ----
(***************************************************************************)
(* Model of the APISIX client library: the Admin client (admin.py) and the *)
(* Control client (control.py).  Each public method builds an endpoint     *)
(* string, hands it to the private dispatcher _make_request, which issues  *)
(* one call of the `requests` library, checks the status, parses the body  *)
(* as JSON and returns it; list methods unwrap node.nodes afterwards.      *)
(*                                                                         *)
(* Representation.  A Python str is a sequence of symbols.  The symbols    *)
(* "/", "?", "=", "&" and the decimal digits are single characters; other  *)
(* symbols ("routes", "r1", ...) stand for a run of characters that holds  *)
(* none of those.  HTTP verbs are spelled character by character, so that  *)
(* str.upper() is modelled on characters.  A Python value is a record      *)
(* [t, v] tagged with its type.  A response body is a sequence of JSON     *)
(* lexemes, parsed by Response_json.                                       *)
(***************************************************************************)
EXTENDS Integers, Sequences, FiniteSets, TLC

VARIABLES
    self,              \* the client object: cls, base_url, api_key, headers
    requests_version,  \* the installed release of the requests library
    pc,                \* "idle" | "waiting" (blocked in requests.*) | "done"
    frame,             \* the public call in progress and its arguments
    wire,              \* the HTTP requests issued by the call in progress
    outcome,           \* what the transport delivered for the call
    result,            \* what the call returned or raised
    stored             \* what the mock server of the round-trip test holds

vars == <<self, requests_version, pc, frame, wire, outcome, result, stored>>

----------------------------------------------------------------------------
(* Bounds *)

MaxSlashes == 1   \* most leading or trailing slashes on a base URL or argument
MaxTtl == 1       \* ttl ranges over 0..MaxTtl and 60
MaxNodes == 1     \* most elements in a node.nodes list of a response

----------------------------------------------------------------------------
(* Python strings *)

Slashes(n) == [i \in 1..n |-> "/"]

RECURSIVE lstrip(_, _)
lstrip(s, c) == IF s # <<>> /\ Head(s) = c THEN lstrip(Tail(s), c) ELSE s

RECURSIVE rstrip(_, _)
rstrip(s, c) ==
    IF s # <<>> /\ s[Len(s)] = c THEN rstrip(SubSeq(s, 1, Len(s) - 1), c) ELSE s

LowerCase == <<"a", "c", "d", "e", "g", "h", "l", "o", "p", "s", "t", "u">>
UpperCase == <<"A", "C", "D", "E", "G", "H", "L", "O", "P", "S", "T", "U">>

upper_char(c) ==
    IF \E i \in DOMAIN LowerCase : LowerCase[i] = c
    THEN UpperCase[CHOOSE i \in DOMAIN LowerCase : LowerCase[i] = c]
    ELSE c

upper(s) == [i \in DOMAIN s |-> upper_char(s[i])]

DigitChars == <<"0", "1", "2", "3", "4", "5", "6", "7", "8", "9">>

RECURSIVE str_nat(_)
str_nat(n) ==
    IF n < 10 THEN <<DigitChars[n + 1]>>
    ELSE str_nat(n \div 10) \o <<DigitChars[(n % 10) + 1]>>

\* format of an int inside an f-string
str_int(n) == IF n < 0 THEN <<"-">> \o str_nat(0 - n) ELSE str_nat(n)

----------------------------------------------------------------------------
(* Python values *)

None == [t |-> "None", v |-> <<>>]
PyInt(n) == [t |-> "int", v |-> n]
PyStr(s) == [t |-> "str", v |-> s]
PyList(l) == [t |-> "list", v |-> l]
PyDict(items) == [t |-> "dict", v |-> items]   \* items: sequence of <<key, value>>

\* bool(val), as in `if subsystem:`
truthy(val) ==
    CASE val.t = "None" -> FALSE
      [] val.t = "int" -> val.v # 0
      [] OTHER -> val.v # <<>>

\* the text an f-string puts for {val}
format(val) ==
    CASE val.t = "int" -> str_int(val.v)
      [] val.t = "str" -> val.v
      [] OTHER -> <<"None">>

\* d[k] = val on the item sequence of a dict: a present key keeps its place
dict_set(items, k, val) ==
    IF \E i \in DOMAIN items : items[i][1] = k
    THEN [i \in DOMAIN items |-> IF items[i][1] = k THEN <<k, val>> ELSE items[i]]
    ELSE Append(items, <<k, val>>)

\* obj.get(k, default): only a dict has .get
dict_get(obj, k, default) ==
    IF obj.t # "dict"
    THEN [raised |-> TRUE, val |-> None]
    ELSE IF \E i \in DOMAIN obj.v : obj.v[i][1] = k
         THEN [raised |-> FALSE,
               val |-> obj.v[CHOOSE i \in DOMAIN obj.v : obj.v[i][1] = k][2]]
         ELSE [raised |-> FALSE, val |-> default]

----------------------------------------------------------------------------
(* JSON text: a sequence of lexemes *)

Lx(c) == [lex |-> c, s |-> <<>>]          \* punctuation, null, or junk
LxStr(s) == [lex |-> "string", s |-> s]   \* a string literal

ParseFail == [ok |-> FALSE, val |-> None, rest |-> <<>>]
ParseOk(val, rest) == [ok |-> TRUE, val |-> val, rest |-> rest]

RECURSIVE parse_value(_), parse_members(_, _), parse_elements(_, _)
parse_value(ts) ==
    IF ts = <<>> THEN ParseFail
    ELSE LET h == Head(ts)
             r == Tail(ts)
         IN  CASE h.lex = "string" -> ParseOk(PyStr(h.s), r)
               [] h.lex = "null" -> ParseOk(None, r)
               [] h.lex = "{" ->
                    IF r # <<>> /\ Head(r).lex = "}"
                    THEN ParseOk(PyDict(<<>>), Tail(r))
                    ELSE parse_members(r, <<>>)
               [] h.lex = "[" ->
                    IF r # <<>> /\ Head(r).lex = "]"
                    THEN ParseOk(PyList(<<>>), Tail(r))
                    ELSE parse_elements(r, <<>>)
               [] OTHER -> ParseFail

parse_members(ts, acc) ==
    IF Len(ts) < 2 \/ ts[1].lex # "string" \/ ts[2].lex # ":" THEN ParseFail
    ELSE LET p == parse_value(SubSeq(ts, 3, Len(ts)))
         IN  IF ~p.ok \/ p.rest = <<>> THEN ParseFail
             ELSE LET acc2 == dict_set(acc, ts[1].s, p.val)
                  IN  CASE Head(p.rest).lex = "}" -> ParseOk(PyDict(acc2), Tail(p.rest))
                        [] Head(p.rest).lex = "," -> parse_members(Tail(p.rest), acc2)
                        [] OTHER -> ParseFail

parse_elements(ts, acc) ==
    LET p == parse_value(ts)
    IN  IF ~p.ok \/ p.rest = <<>> THEN ParseFail
        ELSE CASE Head(p.rest).lex = "]" -> ParseOk(PyList(Append(acc, p.val)), Tail(p.rest))
               [] Head(p.rest).lex = "," -> parse_elements(Tail(p.rest), Append(acc, p.val))
               [] OTHER -> ParseFail

\* json.loads: one value and nothing after it
json_loads(text) ==
    LET p == parse_value(text)
    IN  IF p.ok /\ p.rest = <<>> THEN p ELSE ParseFail

RECURSIVE json_dumps(_), dumps_items(_), dumps_elements(_)
json_dumps(val) ==
    CASE val.t = "str" -> <<LxStr(val.v)>>
      [] val.t = "dict" -> <<Lx("{")>> \o dumps_items(val.v) \o <<Lx("}")>>
      [] val.t = "list" -> <<Lx("[")>> \o dumps_elements(val.v) \o <<Lx("]")>>
      [] OTHER -> <<Lx("null")>>

dumps_items(items) ==
    IF items = <<>> THEN <<>>
    ELSE <<LxStr(items[1][1]), Lx(":")>> \o json_dumps(items[1][2])
         \o (IF Len(items) = 1 THEN <<>> ELSE <<Lx(",")>> \o dumps_items(Tail(items)))

dumps_elements(l) ==
    IF l = <<>> THEN <<>>
    ELSE json_dumps(l[1])
         \o (IF Len(l) = 1 THEN <<>> ELSE <<Lx(",")>> \o dumps_elements(Tail(l)))

----------------------------------------------------------------------------
(* The requests library as the client uses it *)

RequestsVersions == {"2.25.0", "2.27.0"}

NoResponse == [status_code |-> 0, text |-> <<>>]

Exc(type, message, response) ==
    [type |-> type, message |-> message, response |-> response]

NoExc == Exc("none", <<>>, NoResponse)

\* the classes an exception of the given class is an instance of
MRO(type) ==
    CASE type = "requests.HTTPError" ->
            {"requests.HTTPError", "requests.RequestException", "OSError", "Exception"}
      [] type = "requests.ConnectionError" ->
            {"requests.ConnectionError", "requests.RequestException", "OSError", "Exception"}
      [] type = "requests.Timeout" ->
            {"requests.Timeout", "requests.RequestException", "OSError", "Exception"}
      [] type = "requests.JSONDecodeError" ->
            {"requests.JSONDecodeError", "requests.InvalidJSONError",
             "requests.RequestException", "json.JSONDecodeError", "ValueError",
             "OSError", "Exception"}
      [] type = "json.JSONDecodeError" -> {"json.JSONDecodeError", "ValueError", "Exception"}
      [] type = "ConnectionError" -> {"ConnectionError", "OSError", "Exception"}
      [] OTHER -> {type, "Exception"}

isinstance(e, cls) == cls \in MRO(e.type)

\* Response.raise_for_status: raises for 4xx and 5xx only
raise_for_status(r, url) ==
    IF 400 <= r.status_code /\ r.status_code < 500
    THEN Exc("requests.HTTPError",
             str_int(r.status_code) \o <<" Client Error for url: ">> \o url, r)
    ELSE IF 500 <= r.status_code /\ r.status_code < 600
    THEN Exc("requests.HTTPError",
             str_int(r.status_code) \o <<" Server Error for url: ">> \o url, r)
    ELSE NoExc

\* Response.json: the parsed body, or the decode error of the installed
\* release (a RequestException from 2.27.0 on, the json module's before)
Response_json(r, version) ==
    LET p == json_loads(r.text)
    IN  IF p.ok THEN [exc |-> NoExc, val |-> p.val]
        ELSE [exc |-> Exc(IF version = "2.27.0" THEN "requests.JSONDecodeError"
                                                 ELSE "json.JSONDecodeError",
                          <<"Expecting value">>,
                          IF version = "2.27.0" THEN r ELSE NoResponse),
              val |-> None]

TransportErrors ==
    { Exc("requests.ConnectionError", <<"Connection refused">>, NoResponse),
      Exc("requests.ConnectionError", <<"Name or service not known">>, NoResponse),
      Exc("requests.Timeout", <<"timed out">>, NoResponse) }

Request(verb, url, headers, json) ==
    [verb |-> verb, url |-> url, headers |-> headers, json |-> json]

----------------------------------------------------------------------------
(* Results of a call *)

NoResult == [kind |-> "none", value |-> None, exc |-> NoExc]
Returned(val) == [kind |-> "return", value |-> val, exc |-> NoExc]
Raised(e) == [kind |-> "raise", value |-> None, exc |-> e]

NoOutcome == [kind |-> "none", exc |-> NoExc, response |-> NoResponse]
Failure(e) == [kind |-> "error", exc |-> e, response |-> NoResponse]
Reply(r) == [kind |-> "response", exc |-> NoExc, response |-> r]

NoFrame ==
    [name |-> "none", method |-> <<>>, endpoint |-> <<>>, data |-> None,
     ids |-> <<>>, ttl |-> None, unwrap |-> FALSE]

----------------------------------------------------------------------------
(* Inputs *)

Origin == <<"http:", "/", "/", "localhost:9080">>

AdminBaseUrls ==
    { Origin \o <<"/", "apisix", "/", "admin">> \o Slashes(k) : k \in 0..MaxSlashes }

ControlBaseUrls ==
    { Origin \o <<"/", "apisix", "/", "v1">> \o Slashes(k) : k \in 0..MaxSlashes }

ApiKeys == {"key-1", "key-2"}

\* identifiers and sub-paths given by the caller, with and without slashes
Ids ==
    { Slashes(i) \o <<"r1">> : i \in 0..MaxSlashes }
    \cup { <<"r1">> \o Slashes(j) : j \in 1..MaxSlashes }

Configs == { PyDict(<< << <<"uri">>, PyStr(<<"/", "foo">>) >> >>) }

TtlValues == {None} \cup { PyInt(n) : n \in 0..MaxTtl } \cup { PyInt(60) }

Subsystems == { None, PyStr(<<>>), PyStr(<<"http">>) }

GET == <<"G", "E", "T">>
POST == <<"P", "O", "S", "T">>
PUT == <<"P", "U", "T">>
DELETE == <<"D", "E", "L", "E", "T", "E">>
PATCH == <<"P", "A", "T", "C", "H">>

\* method strings a caller of _make_request may pass
Methods ==
    { GET, POST, PUT, DELETE, PATCH,
      <<"g", "e", "t">>, <<"P", "o", "s", "t">>, <<"p", "u", "t">>,
      <<"d", "e", "l", "e", "t", "e">>, <<"p", "a", "t", "c", "h">>,
      <<"H", "E", "A", "D">>, <<"h", "e", "a", "d">>, <<>> }

Endpoints == { Slashes(i) \o <<"routes">> : i \in 0..MaxSlashes }

Statuses == {200, 201, 300, 404, 500}

NodeList(n) ==
    [i \in 1..n |-> PyDict(<< << <<"id">>, PyStr(<<DigitChars[i + 1]>>) >> >>)]

Envelope(l) ==
    PyDict(<< << <<"node">>, PyDict(<< << <<"nodes">>, PyList(l) >> >>) >> >>)

JsonValues ==
    { Envelope(NodeList(n)) : n \in 0..MaxNodes }
    \cup { PyDict(<<>>),
           PyDict(<< << <<"node">>, None >> >>),
           PyList(NodeList(1)),
           PyDict(<< << <<"error_msg">>, PyStr(<<"not found">>) >> >>) }

\* bodies a server may send: JSON texts, text that is not JSON, and the
\* body of the request, if it has one, echoed back
Bodies(req) ==
    { json_dumps(val) : val \in JsonValues }
    \cup { <<Lx("<html>")>> }
    \cup (IF req.json # None THEN { json_dumps(req.json) } ELSE {})

Responses(req) ==
    { [status_code |-> s, text |-> b] : s \in Statuses, b \in Bodies(req) }

----------------------------------------------------------------------------
(* Admin (admin.py) *)

Admin_init(base_url, api_key) ==
    [cls |-> "Admin",
     base_url |-> rstrip(base_url, "/"),
     api_key |-> api_key,
     headers |-> ("Content-Type" :> "application/json") @@ ("X-API-KEY" :> api_key)]

\* variant: the GET branch passes json=data like the POST branch
Admin_make_request_get_with_body(slf, method, endpoint, data) ==
    LET url == slf.base_url \o <<"/">> \o lstrip(endpoint, "/")
    IN  CASE upper(method) = GET ->
                [exc |-> NoExc, request |-> Request(GET, url, slf.headers, data)]
          [] upper(method) = POST ->
                [exc |-> NoExc, request |-> Request(POST, url, slf.headers, data)]
          [] upper(method) = PUT ->
                [exc |-> NoExc, request |-> Request(PUT, url, slf.headers, data)]
          [] upper(method) = DELETE ->
                [exc |-> NoExc, request |-> Request(DELETE, url, slf.headers, None)]
          [] upper(method) = PATCH ->
                [exc |-> NoExc, request |-> Request(PATCH, url, slf.headers, data)]
          [] OTHER ->
                [exc |-> Exc("ValueError", <<"Unsupported HTTP method: ">> \o method,
                             NoResponse),
                 request |-> Request(<<>>, <<>>, <<>>, None)]

\* the try block of Admin._make_request up to the call of requests.*:
\* the request to issue, or the exception raised instead
Admin_make_request(slf, method, endpoint, data) ==
    LET url == slf.base_url \o <<"/">> \o lstrip(endpoint, "/")
    IN  CASE upper(method) = GET ->
                [exc |-> NoExc, request |-> Request(GET, url, slf.headers, None)]
          [] upper(method) = POST ->
                [exc |-> NoExc, request |-> Request(POST, url, slf.headers, data)]
          [] upper(method) = PUT ->
                [exc |-> NoExc, request |-> Request(PUT, url, slf.headers, data)]
          [] upper(method) = DELETE ->
                [exc |-> NoExc, request |-> Request(DELETE, url, slf.headers, None)]
          [] upper(method) = PATCH ->
                [exc |-> NoExc, request |-> Request(PATCH, url, slf.headers, data)]
          [] OTHER ->
                [exc |-> Exc("ValueError", <<"Unsupported HTTP method: ">> \o method,
                             NoResponse),
                 request |-> Request(<<>>, <<>>, <<>>, None)]

\* variant: the except clause names HTTPError instead of RequestException
Admin_except_http_only(e) ==
    IF isinstance(e, "requests.HTTPError")
    THEN Exc("ConnectionError", <<"Error connecting to APISIX: ">> \o e.message, NoResponse)
    ELSE e

\* the except clause of Admin._make_request: what leaves the method when e
\* is raised inside the try block
Admin_except(e) ==
    IF isinstance(e, "requests.RequestException")
    THEN Exc("ConnectionError", <<"Error connecting to APISIX: ">> \o e.message, NoResponse)
    ELSE e

\* the rest of the try block once requests.* has come back with out
Admin_response(out, req, version) ==
    IF out.kind = "error" THEN Raised(Admin_except(out.exc))
    ELSE LET st == raise_for_status(out.response, req.url)
             js == Response_json(out.response, version)
         IN  IF st # NoExc THEN Raised(Admin_except(st))
             ELSE IF js.exc # NoExc THEN Raised(Admin_except(js.exc))
             ELSE Returned(js.val)

----------------------------------------------------------------------------
(* Control (control.py) *)

Control_init(base_url, api_key) ==
    [cls |-> "Control",
     base_url |-> rstrip(base_url, "/"),
     api_key |-> api_key,
     headers |-> ("Content-Type" :> "application/json") @@ ("X-API-KEY" :> api_key)]

Control_make_request(slf, method, endpoint, data) ==
    LET url == slf.base_url \o <<"/">> \o lstrip(endpoint, "/")
    IN  CASE upper(method) = GET ->
                [exc |-> NoExc, request |-> Request(GET, url, slf.headers, None)]
          [] upper(method) = POST ->
                [exc |-> NoExc, request |-> Request(POST, url, slf.headers, data)]
          [] upper(method) = PUT ->
                [exc |-> NoExc, request |-> Request(PUT, url, slf.headers, data)]
          [] OTHER ->
                [exc |-> Exc("ValueError", <<"Unsupported HTTP method: ">> \o method,
                             NoResponse),
                 request |-> Request(<<>>, <<>>, <<>>, None)]

\* variant: a bare except clause, which also takes the ValueError
Control_except_all(e) ==
    Exc("ConnectionError", <<"Error connecting to APISIX: ">> \o e.message, NoResponse)

Control_except(e) ==
    IF isinstance(e, "requests.RequestException")
    THEN Exc("ConnectionError", <<"Error connecting to APISIX: ">> \o e.message, NoResponse)
    ELSE e

\* variant: Control._make_request without response.raise_for_status()
Control_response_no_status_check(out, req, version) ==
    IF out.kind = "error" THEN Raised(Control_except(out.exc))
    ELSE LET js == Response_json(out.response, version)
         IN  IF js.exc # NoExc THEN Raised(Control_except(js.exc))
             ELSE Returned(js.val)

Control_response(out, req, version) ==
    IF out.kind = "error" THEN Raised(Control_except(out.exc))
    ELSE LET st == raise_for_status(out.response, req.url)
             js == Response_json(out.response, version)
         IN  IF st # NoExc THEN Raised(Control_except(st))
             ELSE IF js.exc # NoExc THEN Raised(Control_except(js.exc))
             ELSE Returned(js.val)

----------------------------------------------------------------------------
(* What the list methods do with the parsed response *)

\* response.get('node', {}).get('nodes', [])
node_nodes(response) ==
    LET node == dict_get(response, <<"node">>, PyDict(<<>>))
    IN  IF node.raised
        THEN Raised(Exc("AttributeError", <<"object has no attribute 'get'">>, NoResponse))
        ELSE LET nodes == dict_get(node.val, <<"nodes">>, PyList(<<>>))
             IN  IF nodes.raised
                 THEN Raised(Exc("AttributeError", <<"object has no attribute 'get'">>,
                                 NoResponse))
                 ELSE Returned(nodes.val)

\* the public method's own statements after _make_request has come back
after_make_request(unwrap, res) ==
    IF unwrap /\ res.kind = "return" THEN node_nodes(res.value) ELSE res

----------------------------------------------------------------------------
(* Steps of a call *)

\* the mock server holds nothing
NoStored == [path |-> <<>>, body |-> None, by |-> "none", ids |-> <<>>]

Init ==
    /\ self \in { Admin_init(b, k) : b \in AdminBaseUrls, k \in ApiKeys }
               \cup { Control_init(b, k) : b \in ControlBaseUrls, k \in ApiKeys }
    /\ requests_version \in RequestsVersions
    /\ pc = "idle"
    /\ frame = NoFrame
    /\ wire = <<>>
    /\ outcome = NoOutcome
    /\ result = NoResult
    /\ stored = NoStored

\* variant: _make_request keeps the URL it built as the new base_url
Enter_rebinds_base_url(name, ids, ttl, unwrap, method, endpoint, data, d, leaving) ==
    /\ pc = "idle"
    /\ frame' = [name |-> name, method |-> method, endpoint |-> endpoint,
                 data |-> data, ids |-> ids, ttl |-> ttl, unwrap |-> unwrap]
    /\ outcome' = NoOutcome
    /\ IF d.exc # NoExc
       THEN /\ wire' = <<>>
            /\ pc' = "done"
            /\ result' = Raised(leaving)
            /\ self' = self
       ELSE /\ wire' = <<d.request>>
            /\ pc' = "waiting"
            /\ result' = NoResult
            /\ self' = [self EXCEPT !.base_url = d.request.url]
    /\ UNCHANGED <<requests_version, stored>>

\* a public method (or a direct caller) enters _make_request
Enter(name, ids, ttl, unwrap, method, endpoint, data, d, leaving) ==
    /\ pc = "idle"
    /\ frame' = [name |-> name, method |-> method, endpoint |-> endpoint,
                 data |-> data, ids |-> ids, ttl |-> ttl, unwrap |-> unwrap]
    /\ outcome' = NoOutcome
    /\ IF d.exc # NoExc
       THEN /\ wire' = <<>>
            /\ pc' = "done"
            /\ result' = Raised(leaving)
       ELSE /\ wire' = <<d.request>>
            /\ pc' = "waiting"
            /\ result' = NoResult
    /\ UNCHANGED <<self, requests_version, stored>>

Admin_call(name, ids, ttl, unwrap, method, endpoint, data) ==
    /\ self.cls = "Admin"
    /\ LET d == Admin_make_request(self, method, endpoint, data)
       IN  Enter(name, ids, ttl, unwrap, method, endpoint, data, d, Admin_except(d.exc))

Control_call(name, ids, ttl, unwrap, method, endpoint, data) ==
    /\ self.cls = "Control"
    /\ LET d == Control_make_request(self, method, endpoint, data)
       IN  Enter(name, ids, ttl, unwrap, method, endpoint, data, d, Control_except(d.exc))

\* what the call in progress returns or raises once requests.* has come
\* back with out
call_result(out) ==
    after_make_request(frame.unwrap,
                       IF self.cls = "Admin"
                       THEN Admin_response(out, wire[1], requests_version)
                       ELSE Control_response(out, wire[1], requests_version))

\* variant: a failed request is sent once more before giving up
TransportFails_retry ==
    /\ pc = "waiting"
    /\ \E e \in TransportErrors :
          IF Len(wire) < 2
          THEN /\ wire' = Append(wire, wire[1])
               /\ UNCHANGED <<pc, outcome, result>>
          ELSE /\ outcome' = Failure(e)
               /\ result' = call_result(Failure(e))
               /\ pc' = "done"
               /\ wire' = wire
    /\ UNCHANGED <<self, requests_version, frame, stored>>

\* requests.* raises: DNS failure, refused connection, timeout
TransportFails ==
    /\ pc = "waiting"
    /\ \E e \in TransportErrors :
          /\ outcome' = Failure(e)
          /\ result' = call_result(Failure(e))
    /\ pc' = "done"
    /\ UNCHANGED <<self, requests_version, frame, wire, stored>>

\* requests.* returns the server's response
TransportResponds ==
    /\ pc = "waiting"
    /\ \E r \in Responses(wire[1]) :
          /\ outcome' = Reply(r)
          /\ result' = call_result(Reply(r))
    /\ pc' = "done"
    /\ UNCHANGED <<self, requests_version, frame, wire, stored>>

\* the caller has the result; the client is ready for the next call
Return ==
    /\ pc = "done"
    /\ pc' = "idle"
    /\ frame' = NoFrame
    /\ wire' = <<>>
    /\ outcome' = NoOutcome
    /\ result' = NoResult
    /\ UNCHANGED <<self, requests_version, stored>>

\* the part of a URL before its query string
UrlPath(url) ==
    IF \E i \in DOMAIN url : url[i] = "?"
    THEN SubSeq(url, 1, (CHOOSE i \in DOMAIN url :
                            url[i] = "?" /\ \A j \in 1..(i - 1) : url[j] # "?") - 1)
    ELSE url

\* the mock server of the round-trip test: it keeps the body last written
\* (POST, PUT, PATCH) under the path of the request and echoes it with 201,
\* serves it on GET of that path, drops it on DELETE of that path, and
\* answers 404 for any other path
MockReply(req) ==
    LET path == UrlPath(req.url)
        found == stored.by # "none" /\ stored.path = path
    IN  CASE req.verb \in {POST, PUT, PATCH} ->
                [response |-> [status_code |-> 201, text |-> json_dumps(req.json)],
                 stored |-> [path |-> path, body |-> req.json,
                             by |-> frame.name, ids |-> frame.ids]]
          [] req.verb = GET /\ found ->
                [response |-> [status_code |-> 200, text |-> json_dumps(stored.body)],
                 stored |-> stored]
          [] req.verb = DELETE /\ found ->
                [response |-> [status_code |-> 200, text |-> json_dumps(PyDict(<<>>))],
                 stored |-> NoStored]
          [] OTHER ->
                [response |-> [status_code |-> 404,
                               text |-> json_dumps(PyDict(<< << <<"error_msg">>,
                                                  PyStr(<<"not found">>) >> >>))],
                 stored |-> stored]

MockResponds ==
    /\ pc = "waiting"
    /\ LET m == MockReply(wire[1])
       IN  /\ outcome' = Reply(m.response)
           /\ result' = call_result(Reply(m.response))
           /\ stored' = m.stored
    /\ pc' = "done"
    /\ UNCHANGED <<self, requests_version, frame, wire>>

\* _make_request called directly
Admin_call_make_request ==
    \E method \in Methods, endpoint \in Endpoints, data \in {None} \cup Configs :
        Admin_call("_make_request", <<>>, None, FALSE, method, endpoint, data)

Control_call_make_request ==
    \E method \in Methods, endpoint \in Endpoints, data \in {None} \cup Configs :
        Control_call("_make_request", <<>>, None, FALSE, method, endpoint, data)

----------------------------------------------------------------------------
(* The public methods of Admin *)

Admin_list_routes ==
    Admin_call("list_routes", <<>>, None, TRUE, GET,
               <<"/", "routes">>,
               None)

Admin_get_route ==
    \E route_id \in Ids :
        Admin_call("get_route", <<route_id>>, None, FALSE, GET,
                   <<"/", "routes", "/">> \o route_id,
                   None)

\* variant: `if ttl:` in place of `if ttl != None:`
Admin_create_route_truthy ==
    \E route_config \in Configs, ttl \in TtlValues :
        IF truthy(ttl)
        THEN Admin_call("create_route", <<>>, ttl, FALSE, POST,
                        <<"/", "routes", "?", "ttl", "=">> \o format(ttl),
                        route_config)
        ELSE Admin_call("create_route", <<>>, ttl, FALSE, POST,
                        <<"/", "routes">>,
                        route_config)

Admin_create_route ==
    \E route_config \in Configs, ttl \in TtlValues :
        IF ttl # None
        THEN Admin_call("create_route", <<>>, ttl, FALSE, POST,
                        <<"/", "routes", "?", "ttl", "=">> \o format(ttl),
                        route_config)
        ELSE Admin_call("create_route", <<>>, ttl, FALSE, POST,
                        <<"/", "routes">>,
                        route_config)

Admin_update_route ==
    \E route_id \in Ids, route_config \in Configs, ttl \in TtlValues :
        IF ttl # None
        THEN Admin_call("update_route", <<route_id>>, ttl, FALSE, PATCH,
                        <<"/", "routes", "/">> \o route_id \o <<"?", "ttl", "=">> \o format(ttl),
                        route_config)
        ELSE Admin_call("update_route", <<route_id>>, ttl, FALSE, PATCH,
                        <<"/", "routes", "/">> \o route_id,
                        route_config)

Admin_update_route_with_path ==
    \E route_id \in Ids, route_path \in Ids, route_config \in Configs, ttl \in TtlValues :
        IF ttl # None
        THEN Admin_call("update_route_with_path", <<route_id, route_path>>, ttl, FALSE, PATCH,
                        <<"/", "routes", "/">> \o route_id \o <<"/">> \o route_path \o <<"?", "ttl", "=">> \o format(ttl),
                        route_config)
        ELSE Admin_call("update_route_with_path", <<route_id, route_path>>, ttl, FALSE, PATCH,
                        <<"/", "routes", "/">> \o route_id \o <<"/">> \o route_path,
                        route_config)

Admin_create_route_with_id ==
    \E route_id \in Ids, route_config \in Configs, ttl \in TtlValues :
        IF ttl # None
        THEN Admin_call("create_route_with_id", <<route_id>>, ttl, FALSE, PUT,
                        <<"/", "routes", "/">> \o route_id \o <<"?", "ttl", "=">> \o format(ttl),
                        route_config)
        ELSE Admin_call("create_route_with_id", <<route_id>>, ttl, FALSE, PUT,
                        <<"/", "routes", "/">> \o route_id,
                        route_config)

Admin_delete_route ==
    \E route_id \in Ids :
        Admin_call("delete_route", <<route_id>>, None, FALSE, DELETE,
                   <<"/", "routes", "/">> \o route_id,
                   None)

Admin_list_services ==
    Admin_call("list_services", <<>>, None, TRUE, GET,
               <<"/", "services">>,
               None)

Admin_get_service ==
    \E service_id \in Ids :
        Admin_call("get_service", <<service_id>>, None, FALSE, GET,
                   <<"/", "services", "/">> \o service_id,
                   None)

Admin_create_service ==
    \E service_config \in Configs :
        Admin_call("create_service", <<>>, None, FALSE, POST,
                   <<"/", "services">>,
                   service_config)

Admin_update_service ==
    \E service_id \in Ids, service_config \in Configs :
        Admin_call("update_service", <<service_id>>, None, FALSE, PATCH,
                   <<"/", "services", "/">> \o service_id,
                   service_config)

Admin_update_service_with_path ==
    \E service_id \in Ids, service_path \in Ids, service_config \in Configs :
        Admin_call("update_service_with_path", <<service_id, service_path>>, None, FALSE, PATCH,
                   <<"/", "services", "/">> \o service_id \o <<"/">> \o service_path,
                   service_config)

Admin_create_service_with_id ==
    \E service_id \in Ids, service_config \in Configs :
        Admin_call("create_service_with_id", <<service_id>>, None, FALSE, PUT,
                   <<"/", "services", "/">> \o service_id,
                   service_config)

Admin_delete_service ==
    \E service_id \in Ids :
        Admin_call("delete_service", <<service_id>>, None, FALSE, DELETE,
                   <<"/", "services", "/">> \o service_id,
                   None)

Admin_list_consumers ==
    Admin_call("list_consumers", <<>>, None, TRUE, GET,
               <<"/", "consumers">>,
               None)

Admin_get_consumer ==
    \E username \in Ids :
        Admin_call("get_consumer", <<username>>, None, FALSE, GET,
                   <<"/", "consumers", "/">> \o username,
                   None)

Admin_create_consumer ==
    \E consumer_config \in Configs :
        Admin_call("create_consumer", <<>>, None, FALSE, POST,
                   <<"/", "consumers">>,
                   consumer_config)

Admin_update_consumer ==
    \E username \in Ids, consumer_config \in Configs :
        Admin_call("update_consumer", <<username>>, None, FALSE, PUT,
                   <<"/", "consumers", "/">> \o username,
                   consumer_config)

Admin_delete_consumer ==
    \E username \in Ids :
        Admin_call("delete_consumer", <<username>>, None, FALSE, DELETE,
                   <<"/", "consumers", "/">> \o username,
                   None)

Admin_list_consumer_credentials ==
    \E username \in Ids :
        Admin_call("list_consumer_credentials", <<username>>, None, FALSE, GET,
                   <<"/", "consumers", "/">> \o username \o <<"/", "credentials">>,
                   None)

Admin_get_consumer_credential ==
    \E username \in Ids, credential_id \in Ids :
        Admin_call("get_consumer_credential", <<username, credential_id>>, None, FALSE, GET,
                   <<"/", "consumers", "/">> \o username \o <<"/", "credentials", "/">> \o credential_id,
                   None)

Admin_create_or_update_consumer_credential ==
    \E username \in Ids, credential_id \in Ids, credential_config \in Configs :
        Admin_call("create_or_update_consumer_credential", <<username, credential_id>>, None, FALSE, PUT,
                   <<"/", "consumers", "/">> \o username \o <<"/", "credentials", "/">> \o credential_id,
                   credential_config)

Admin_delete_consumer_credential ==
    \E username \in Ids, credential_id \in Ids :
        Admin_call("delete_consumer_credential", <<username, credential_id>>, None, FALSE, DELETE,
                   <<"/", "consumers", "/">> \o username \o <<"/", "credentials", "/">> \o credential_id,
                   None)

Admin_list_upstreams ==
    Admin_call("list_upstreams", <<>>, None, TRUE, GET,
               <<"/", "upstreams">>,
               None)

Admin_get_upstream ==
    \E upstream_id \in Ids :
        Admin_call("get_upstream", <<upstream_id>>, None, FALSE, GET,
                   <<"/", "upstreams", "/">> \o upstream_id,
                   None)

Admin_create_upstream_with_id ==
    \E upstream_id \in Ids, upstream_config \in Configs :
        Admin_call("create_upstream_with_id", <<upstream_id>>, None, FALSE, PUT,
                   <<"/", "upstreams", "/">> \o upstream_id,
                   upstream_config)

Admin_create_upstream ==
    \E upstream_config \in Configs :
        Admin_call("create_upstream", <<>>, None, FALSE, POST,
                   <<"/", "upstreams">>,
                   upstream_config)

Admin_update_upstream ==
    \E upstream_id \in Ids, upstream_config \in Configs :
        Admin_call("update_upstream", <<upstream_id>>, None, FALSE, PATCH,
                   <<"/", "upstreams", "/">> \o upstream_id,
                   upstream_config)

Admin_update_upstream_with_path ==
    \E upstream_id \in Ids, path \in Ids, upstream_config \in Configs :
        Admin_call("update_upstream_with_path", <<upstream_id, path>>, None, FALSE, PATCH,
                   <<"/", "upstreams", "/">> \o upstream_id \o <<"/">> \o path,
                   upstream_config)

Admin_delete_upstream ==
    \E upstream_id \in Ids :
        Admin_call("delete_upstream", <<upstream_id>>, None, FALSE, DELETE,
                   <<"/", "upstreams", "/">> \o upstream_id,
                   None)

Admin_list_ssl ==
    Admin_call("list_ssl", <<>>, None, TRUE, GET,
               <<"/", "ssl">>,
               None)

Admin_get_ssl ==
    \E ssl_id \in Ids :
        Admin_call("get_ssl", <<ssl_id>>, None, FALSE, GET,
                   <<"/", "ssl", "/">> \o ssl_id,
                   None)

Admin_create_ssl ==
    \E ssl_config \in Configs :
        Admin_call("create_ssl", <<>>, None, FALSE, POST,
                   <<"/", "ssl">>,
                   ssl_config)

Admin_update_ssl ==
    \E ssl_id \in Ids, ssl_config \in Configs :
        Admin_call("update_ssl", <<ssl_id>>, None, FALSE, PUT,
                   <<"/", "ssl", "/">> \o ssl_id,
                   ssl_config)

Admin_delete_ssl ==
    \E ssl_id \in Ids :
        Admin_call("delete_ssl", <<ssl_id>>, None, FALSE, DELETE,
                   <<"/", "ssl", "/">> \o ssl_id,
                   None)

Admin_list_global_rules ==
    Admin_call("list_global_rules", <<>>, None, TRUE, GET,
               <<"/", "global_rules">>,
               None)

Admin_get_global_rule ==
    \E rule_id \in Ids :
        Admin_call("get_global_rule", <<rule_id>>, None, FALSE, GET,
                   <<"/", "global_rules", "/">> \o rule_id,
                   None)

Admin_create_global_rule_with_id ==
    \E rule_id \in Ids, rule_config \in Configs :
        Admin_call("create_global_rule_with_id", <<rule_id>>, None, FALSE, PUT,
                   <<"/", "global_rules", "/">> \o rule_id,
                   rule_config)

Admin_delete_global_rule ==
    \E rule_id \in Ids :
        Admin_call("delete_global_rule", <<rule_id>>, None, FALSE, DELETE,
                   <<"/", "global_rules", "/">> \o rule_id,
                   None)

Admin_update_global_rule ==
    \E rule_id \in Ids, rule_config \in Configs :
        Admin_call("update_global_rule", <<rule_id>>, None, FALSE, PATCH,
                   <<"/", "global_rules", "/">> \o rule_id,
                   rule_config)

Admin_update_global_rule_with_path ==
    \E rule_id \in Ids, path \in Ids, rule_config \in Configs :
        Admin_call("update_global_rule_with_path", <<rule_id, path>>, None, FALSE, PATCH,
                   <<"/", "global_rules", "/">> \o rule_id \o <<"/">> \o path,
                   rule_config)

Admin_list_consumer_groups ==
    Admin_call("list_consumer_groups", <<>>, None, TRUE, GET,
               <<"/", "consumer_groups">>,
               None)

Admin_get_consumer_group ==
    \E group_id \in Ids :
        Admin_call("get_consumer_group", <<group_id>>, None, FALSE, GET,
                   <<"/", "consumer_groups", "/">> \o group_id,
                   None)

Admin_create_consumer_group_with_id ==
    \E group_id \in Ids, group_config \in Configs :
        Admin_call("create_consumer_group_with_id", <<group_id>>, None, FALSE, PUT,
                   <<"/", "consumer_groups", "/">> \o group_id,
                   group_config)

Admin_delete_consumer_group ==
    \E group_id \in Ids :
        Admin_call("delete_consumer_group", <<group_id>>, None, FALSE, DELETE,
                   <<"/", "consumer_groups", "/">> \o group_id,
                   None)

Admin_update_consumer_group ==
    \E group_id \in Ids, group_config \in Configs :
        Admin_call("update_consumer_group", <<group_id>>, None, FALSE, PATCH,
                   <<"/", "consumer_groups", "/">> \o group_id,
                   group_config)

Admin_update_consumer_group_with_path ==
    \E group_id \in Ids, path \in Ids, group_config \in Configs :
        Admin_call("update_consumer_group_with_path", <<group_id, path>>, None, FALSE, PATCH,
                   <<"/", "consumer_groups", "/">> \o group_id \o <<"/">> \o path,
                   group_config)

Admin_list_plugin_configs ==
    Admin_call("list_plugin_configs", <<>>, None, TRUE, GET,
               <<"/", "plugin_configs">>,
               None)

Admin_get_plugin_config ==
    \E config_id \in Ids :
        Admin_call("get_plugin_config", <<config_id>>, None, FALSE, GET,
                   <<"/", "plugin_configs", "/">> \o config_id,
                   None)

Admin_create_plugin_config_with_id ==
    \E config_id \in Ids, config \in Configs :
        Admin_call("create_plugin_config_with_id", <<config_id>>, None, FALSE, PUT,
                   <<"/", "plugin_configs", "/">> \o config_id,
                   config)

Admin_delete_plugin_config ==
    \E config_id \in Ids :
        Admin_call("delete_plugin_config", <<config_id>>, None, FALSE, DELETE,
                   <<"/", "plugin_configs", "/">> \o config_id,
                   None)

Admin_update_plugin_config ==
    \E config_id \in Ids, config \in Configs :
        Admin_call("update_plugin_config", <<config_id>>, None, FALSE, PATCH,
                   <<"/", "plugin_configs", "/">> \o config_id,
                   config)

Admin_update_plugin_config_with_path ==
    \E config_id \in Ids, path \in Ids, config \in Configs :
        Admin_call("update_plugin_config_with_path", <<config_id, path>>, None, FALSE, PATCH,
                   <<"/", "plugin_configs", "/">> \o config_id \o <<"/">> \o path,
                   config)

Admin_get_plugin_metadata ==
    \E plugin_name \in Ids :
        Admin_call("get_plugin_metadata", <<plugin_name>>, None, FALSE, GET,
                   <<"/", "plugin_metadata", "/">> \o plugin_name,
                   None)

Admin_create_plugin_metadata ==
    \E plugin_name \in Ids, metadata \in Configs :
        Admin_call("create_plugin_metadata", <<plugin_name>>, None, FALSE, PUT,
                   <<"/", "plugin_metadata", "/">> \o plugin_name,
                   metadata)

Admin_delete_plugin_metadata ==
    \E plugin_name \in Ids :
        Admin_call("delete_plugin_metadata", <<plugin_name>>, None, FALSE, DELETE,
                   <<"/", "plugin_metadata", "/">> \o plugin_name,
                   None)

Admin_list_plugins ==
    Admin_call("list_plugins", <<>>, None, TRUE, GET,
               <<"/", "plugins", "/", "list">>,
               None)

Admin_get_plugin ==
    \E plugin_name \in Ids :
        Admin_call("get_plugin", <<plugin_name>>, None, FALSE, GET,
                   <<"/", "plugins", "/">> \o plugin_name,
                   None)

Admin_get_all_plugins_properties ==
    Admin_call("get_all_plugins_properties", <<>>, None, FALSE, GET,
               <<"/", "plugins", "?", "all", "=", "true">>,
               None)

Admin_get_all_stream_plugins_properties ==
    Admin_call("get_all_stream_plugins_properties", <<>>, None, FALSE, GET,
               <<"/", "plugins", "?", "all", "=", "true", "&", "subsystem", "=", "stream">>,
               None)

Admin_get_all_http_plugins_properties ==
    Admin_call("get_all_http_plugins_properties", <<>>, None, FALSE, GET,
               <<"/", "plugins", "?", "all", "=", "true", "&", "subsystem", "=", "http">>,
               None)

Admin_reload_plugins ==
    Admin_call("reload_plugins", <<>>, None, FALSE, PUT,
               <<"/", "plugins", "/", "reload">>,
               None)

Admin_get_plugin_properties ==
    \E plugin_name \in Ids, subsystem \in Subsystems :
        IF truthy(subsystem)
        THEN Admin_call("get_plugin_properties", <<plugin_name>>, None, FALSE, GET,
                        <<"/", "plugins", "/">> \o plugin_name \o <<"?", "subsystem", "=">> \o format(subsystem),
                        None)
        ELSE Admin_call("get_plugin_properties", <<plugin_name>>, None, FALSE, GET,
                        <<"/", "plugins", "/">> \o plugin_name,
                        None)

Admin_list_stream_routes ==
    Admin_call("list_stream_routes", <<>>, None, TRUE, GET,
               <<"/", "stream_routes">>,
               None)

Admin_get_stream_route ==
    \E route_id \in Ids :
        Admin_call("get_stream_route", <<route_id>>, None, FALSE, GET,
                   <<"/", "stream_routes", "/">> \o route_id,
                   None)

Admin_create_stream_route_with_id ==
    \E route_id \in Ids, route_config \in Configs :
        Admin_call("create_stream_route_with_id", <<route_id>>, None, FALSE, PUT,
                   <<"/", "stream_routes", "/">> \o route_id,
                   route_config)

Admin_create_stream_route ==
    \E route_config \in Configs :
        Admin_call("create_stream_route", <<>>, None, FALSE, POST,
                   <<"/", "stream_routes">>,
                   route_config)

Admin_delete_stream_route ==
    \E route_id \in Ids :
        Admin_call("delete_stream_route", <<route_id>>, None, FALSE, DELETE,
                   <<"/", "stream_routes", "/">> \o route_id,
                   None)

Admin_list_secrets ==
    Admin_call("list_secrets", <<>>, None, TRUE, GET,
               <<"/", "secrets">>,
               None)

Admin_get_secret ==
    \E manager \in Ids, secret_id \in Ids :
        Admin_call("get_secret", <<manager, secret_id>>, None, FALSE, GET,
                   <<"/", "secrets", "/">> \o manager \o <<"/">> \o secret_id,
                   None)

Admin_create_secret ==
    \E manager \in Ids, secret_config \in Configs :
        Admin_call("create_secret", <<manager>>, None, FALSE, PUT,
                   <<"/", "secrets", "/">> \o manager,
                   secret_config)

Admin_delete_secret ==
    \E manager \in Ids, secret_id \in Ids :
        Admin_call("delete_secret", <<manager, secret_id>>, None, FALSE, DELETE,
                   <<"/", "secrets", "/">> \o manager \o <<"/">> \o secret_id,
                   None)

Admin_update_secret ==
    \E manager \in Ids, secret_id \in Ids, secret_config \in Configs :
        Admin_call("update_secret", <<manager, secret_id>>, None, FALSE, PATCH,
                   <<"/", "secrets", "/">> \o manager \o <<"/">> \o secret_id,
                   secret_config)

Admin_update_secret_with_path ==
    \E manager \in Ids, secret_id \in Ids, path \in Ids, secret_config \in Configs :
        Admin_call("update_secret_with_path", <<manager, secret_id, path>>, None, FALSE, PATCH,
                   <<"/", "secrets", "/">> \o manager \o <<"/">> \o secret_id \o <<"/">> \o path,
                   secret_config)

Admin_list_protos ==
    Admin_call("list_protos", <<>>, None, TRUE, GET,
               <<"/", "protos">>,
               None)

Admin_get_proto ==
    \E proto_id \in Ids :
        Admin_call("get_proto", <<proto_id>>, None, FALSE, GET,
                   <<"/", "protos", "/">> \o proto_id,
                   None)

Admin_create_proto_with_id ==
    \E proto_id \in Ids, proto_config \in Configs :
        Admin_call("create_proto_with_id", <<proto_id>>, None, FALSE, PUT,
                   <<"/", "protos", "/">> \o proto_id,
                   proto_config)

Admin_create_proto ==
    \E proto_config \in Configs :
        Admin_call("create_proto", <<>>, None, FALSE, POST,
                   <<"/", "protos">>,
                   proto_config)

Admin_delete_proto ==
    \E proto_id \in Ids :
        Admin_call("delete_proto", <<proto_id>>, None, FALSE, DELETE,
                   <<"/", "protos", "/">> \o proto_id,
                   None)

Admin_validate_resource_schema ==
    \E resource \in Ids, config \in Configs :
        Admin_call("validate_resource_schema", <<resource>>, None, FALSE, POST,
                   <<"/", "schema", "/", "validate", "/">> \o resource,
                   config)

----------------------------------------------------------------------------
(* The public methods of Control *)

Control_get_schema ==
    Control_call("get_schema", <<>>, None, FALSE, GET,
                 <<"/", "schema">>,
                 None)

Control_healthcheck ==
    Control_call("healthcheck", <<>>, None, FALSE, GET,
                 <<"/", "healthcheck">>,
                 None)

Control_trigger_gc ==
    Control_call("trigger_gc", <<>>, None, FALSE, POST,
                 <<"/", "gc">>,
                 None)

Control_list_routes ==
    Control_call("list_routes", <<>>, None, TRUE, GET,
                 <<"/", "routes">>,
                 None)

Control_get_route ==
    \E route_id \in Ids :
        Control_call("get_route", <<route_id>>, None, FALSE, GET,
                     <<"/", "route", "/">> \o route_id,
                     None)

Control_list_services ==
    Control_call("list_services", <<>>, None, TRUE, GET,
                 <<"/", "services">>,
                 None)

Control_get_service ==
    \E service_id \in Ids :
        Control_call("get_service", <<service_id>>, None, FALSE, GET,
                     <<"/", "service", "/">> \o service_id,
                     None)

Control_list_upstreams ==
    Control_call("list_upstreams", <<>>, None, TRUE, GET,
                 <<"/", "upstreams">>,
                 None)

Control_get_upstream ==
    \E upstream_id \in Ids :
        Control_call("get_upstream", <<upstream_id>>, None, FALSE, GET,
                     <<"/", "upstream", "/">> \o upstream_id,
                     None)

Control_list_plugin_metadatas ==
    Control_call("list_plugin_metadatas", <<>>, None, TRUE, GET,
                 <<"/", "plugin_metadatas">>,
                 None)

Control_get_plugin_metadata ==
    \E plugin_name \in Ids :
        Control_call("get_plugin_metadata", <<plugin_name>>, None, FALSE, GET,
                     <<"/", "plugin_metadata", "/">> \o plugin_name,
                     None)

Control_reload_plugins ==
    Control_call("reload_plugins", <<>>, None, FALSE, PUT,
                 <<"/", "plugins", "/", "reload">>,
                 None)

Control_get_discovery_dump ==
    \E service \in Ids :
        Control_call("get_discovery_dump", <<service>>, None, FALSE, GET,
                     <<"/", "discovery", "/">> \o service \o <<"/", "dump">>,
                     None)

Control_show_discovery_dump_file ==
    \E service \in Ids :
        Control_call("show_discovery_dump_file", <<service>>, None, FALSE, GET,
                     <<"/", "discovery", "/">> \o service \o <<"/", "show_dump_file">>,
                     None)

----------------------------------------------------------------------------
(* The specification *)

Next ==
    \/ Admin_call_make_request
    \/ Control_call_make_request
    \/ Admin_list_routes
    \/ Admin_get_route
    \/ Admin_create_route
    \/ Admin_update_route
    \/ Admin_update_route_with_path
    \/ Admin_create_route_with_id
    \/ Admin_delete_route
    \/ Admin_list_services
    \/ Admin_get_service
    \/ Admin_create_service
    \/ Admin_update_service
    \/ Admin_update_service_with_path
    \/ Admin_create_service_with_id
    \/ Admin_delete_service
    \/ Admin_list_consumers
    \/ Admin_get_consumer
    \/ Admin_create_consumer
    \/ Admin_update_consumer
    \/ Admin_delete_consumer
    \/ Admin_list_consumer_credentials
    \/ Admin_get_consumer_credential
    \/ Admin_create_or_update_consumer_credential
    \/ Admin_delete_consumer_credential
    \/ Admin_list_upstreams
    \/ Admin_get_upstream
    \/ Admin_create_upstream_with_id
    \/ Admin_create_upstream
    \/ Admin_update_upstream
    \/ Admin_update_upstream_with_path
    \/ Admin_delete_upstream
    \/ Admin_list_ssl
    \/ Admin_get_ssl
    \/ Admin_create_ssl
    \/ Admin_update_ssl
    \/ Admin_delete_ssl
    \/ Admin_list_global_rules
    \/ Admin_get_global_rule
    \/ Admin_create_global_rule_with_id
    \/ Admin_delete_global_rule
    \/ Admin_update_global_rule
    \/ Admin_update_global_rule_with_path
    \/ Admin_list_consumer_groups
    \/ Admin_get_consumer_group
    \/ Admin_create_consumer_group_with_id
    \/ Admin_delete_consumer_group
    \/ Admin_update_consumer_group
    \/ Admin_update_consumer_group_with_path
    \/ Admin_list_plugin_configs
    \/ Admin_get_plugin_config
    \/ Admin_create_plugin_config_with_id
    \/ Admin_delete_plugin_config
    \/ Admin_update_plugin_config
    \/ Admin_update_plugin_config_with_path
    \/ Admin_get_plugin_metadata
    \/ Admin_create_plugin_metadata
    \/ Admin_delete_plugin_metadata
    \/ Admin_list_plugins
    \/ Admin_get_plugin
    \/ Admin_get_all_plugins_properties
    \/ Admin_get_all_stream_plugins_properties
    \/ Admin_get_all_http_plugins_properties
    \/ Admin_reload_plugins
    \/ Admin_get_plugin_properties
    \/ Admin_list_stream_routes
    \/ Admin_get_stream_route
    \/ Admin_create_stream_route_with_id
    \/ Admin_create_stream_route
    \/ Admin_delete_stream_route
    \/ Admin_list_secrets
    \/ Admin_get_secret
    \/ Admin_create_secret
    \/ Admin_delete_secret
    \/ Admin_update_secret
    \/ Admin_update_secret_with_path
    \/ Admin_list_protos
    \/ Admin_get_proto
    \/ Admin_create_proto_with_id
    \/ Admin_create_proto
    \/ Admin_delete_proto
    \/ Admin_validate_resource_schema
    \/ Control_get_schema
    \/ Control_healthcheck
    \/ Control_trigger_gc
    \/ Control_list_routes
    \/ Control_get_route
    \/ Control_list_services
    \/ Control_get_service
    \/ Control_list_upstreams
    \/ Control_get_upstream
    \/ Control_list_plugin_metadatas
    \/ Control_get_plugin_metadata
    \/ Control_reload_plugins
    \/ Control_get_discovery_dump
    \/ Control_show_discovery_dump_file
    \/ TransportFails
    \/ TransportResponds
    \/ Return

Spec == Init /\ [][Next]_vars

\* the round-trip test: an Admin client against the mock server
InitMock == Init /\ self.cls = "Admin"

NextMock ==
    \/ Admin_get_route
    \/ Admin_create_route_with_id
    \/ Admin_update_route
    \/ Admin_delete_route
    \/ Admin_get_service
    \/ Admin_create_service_with_id
    \/ Admin_update_service
    \/ Admin_delete_service
    \/ Admin_get_upstream
    \/ Admin_create_upstream_with_id
    \/ Admin_update_upstream
    \/ Admin_delete_upstream
    \/ Admin_get_global_rule
    \/ Admin_create_global_rule_with_id
    \/ Admin_update_global_rule
    \/ Admin_delete_global_rule
    \/ Admin_get_consumer_group
    \/ Admin_create_consumer_group_with_id
    \/ Admin_update_consumer_group
    \/ Admin_delete_consumer_group
    \/ Admin_get_plugin_config
    \/ Admin_create_plugin_config_with_id
    \/ Admin_update_plugin_config
    \/ Admin_delete_plugin_config
    \/ Admin_get_stream_route
    \/ Admin_create_stream_route_with_id
    \/ Admin_delete_stream_route
    \/ Admin_get_proto
    \/ Admin_create_proto_with_id
    \/ Admin_delete_proto
    \/ Admin_get_secret
    \/ Admin_create_secret
    \/ Admin_update_secret
    \/ Admin_delete_secret
    \/ MockResponds
    \/ Return

SpecMock == InitMock /\ [][NextMock]_vars
----------------------------------------------------------------------------
(* Properties *)

Range(s) == { s[i] : i \in DOMAIN s }

ParsedBody == json_loads(outcome.response.text)

Is2xx(r) == r.status_code \in 200..299

\* the names of the collection-list methods of the two clients
ListMethods ==
    { "list_routes", "list_services", "list_consumers", "list_consumer_credentials",
      "list_upstreams", "list_ssl", "list_global_rules", "list_consumer_groups",
      "list_plugin_configs", "list_plugins", "list_stream_routes", "list_secrets",
      "list_protos", "list_plugin_metadatas" }

\* C1: a response whose status is outside 2xx ends the call with an error
\* that carries the response (its status code and its raw body); such a
\* call never returns a value.
C1_NonSuccessStatusRaisesStatusError ==
    (pc = "done" /\ frame.name # "_make_request"
        /\ outcome.kind = "response" /\ ~Is2xx(outcome.response))
        => /\ result.kind = "raise"
           /\ result.exc.response = outcome.response

\* the failure cause of an outcome: transport failure, status outside 2xx,
\* or a 2xx response whose body is not JSON
Cause(out) ==
    CASE out.kind = "error" -> "transport"
      [] out.kind = "response" /\ ~Is2xx(out.response) -> "status"
      [] out.kind = "response" /\ Is2xx(out.response)
            /\ ~json_loads(out.response.text).ok -> "decode"
      [] OTHER -> "none"

Outcomes(req) ==
    { Failure(e) : e \in TransportErrors } \cup { Reply(r) : r \in Responses(req) }

\* C2: the error kind of a failed call tells its cause: no outcome of another
\* of the three causes (status, transport, decode) ends the same call with
\* the same error kind.
C2_ErrorKindTellsCause ==
    (pc = "done" /\ Cause(outcome) # "none")
        => /\ result.kind = "raise"
           /\ \A o \in Outcomes(wire[1]) :
                 Cause(o) \notin {"none", Cause(outcome)}
                    => call_result(o).exc.type # result.exc.type

\* the outcomes the transport can fail a call with: connection failure,
\* timeout, error status (4xx, 5xx), undecodable body
FailedOutcome ==
    \/ outcome.kind = "error"
    \/ /\ outcome.kind = "response"
       /\ \/ outcome.response.status_code \in 400..599
          \/ ~ParsedBody.ok

Dispatched(cls) ==
    IF cls = "Admin" THEN {GET, POST, PUT, DELETE, PATCH} ELSE {GET, POST, PUT}

UnsupportedVerb == pc # "idle" /\ upper(frame.method) \notin Dispatched(self.cls)

\* C4: a call of _make_request with a verb outside the dispatched ones
\* (compared in upper case) ends in ValueError and issues no HTTP request at
\* any point of the call.
C4_UnsupportedVerbFailsBeforeIO ==
    UnsupportedVerb
        => /\ pc = "done"
           /\ wire = <<>>
           /\ outcome = NoOutcome
           /\ result.kind = "raise"
           /\ result.exc.type = "ValueError"

C4_Witness ==
    /\ pc = "done"
    /\ self.cls = "Control"
    /\ frame.method = <<"d", "e", "l", "e", "t", "e">>
    /\ result.exc.type = "ValueError"
    /\ wire = <<>>

\* C5: a call of a public method issues exactly one HTTP request, with the
\* verb the method passes, whatever the outcome: none before the call
\* completes is added, none is missing when it completes.
C5_ExactlyOneRequest ==
    (pc # "idle" /\ frame.name # "_make_request")
        => /\ Len(wire) = 1
           /\ wire[1].verb = frame.method
           /\ frame.method \in Dispatched(self.cls)

C5_Witness ==
    /\ pc = "done"
    /\ frame.name = "delete_route"
    /\ outcome.kind = "error"
    /\ result.kind = "raise"
    /\ Len(wire) = 1
    /\ wire[1].verb = DELETE

\* the part of a URL after scheme and authority
PathOf(url) == SubSeq(url, Len(Origin) + 1, Len(url))

NoDoubleSlash(s) == \A i \in 1..(Len(s) - 1) : ~(s[i] = "/" /\ s[i + 1] = "/")

\* C6: the requested URL is base_url + '/' + path and its path part has no
\* two consecutive slashes, whatever slashes the base URL and the arguments
\* carry.
C6_NoDoubleSlash ==
    wire # <<>>
        => /\ SubSeq(wire[1].url, 1, Len(self.base_url) + 1) = self.base_url \o <<"/">>
           /\ NoDoubleSlash(PathOf(wire[1].url))

\* the sequence under node.nodes when the envelope is there, else empty
Unwrapped(val) ==
    LET node == dict_get(val, <<"node">>, None)
        nodes == dict_get(node.val, <<"nodes">>, None)
    IN  IF ~node.raised /\ ~nodes.raised /\ nodes.val.t = "list"
        THEN nodes.val
        ELSE PyList(<<>>)

\* C7: a list method returns node.nodes of a parsed response when the
\* envelope is present and the empty sequence when it is absent; it never
\* raises on a parsed response.
C7_ListNeverRaises ==
    (pc = "done" /\ frame.unwrap /\ outcome.kind = "response"
        /\ Is2xx(outcome.response) /\ ParsedBody.ok)
        => /\ result.kind = "return"
           /\ result.value = Unwrapped(ParsedBody.val)

\* C8: every collection-list method, list_consumer_credentials included,
\* returns the plain sequence L for the response {"node": {"nodes": L}}.
C8_EveryListMethodUnwraps ==
    (pc = "done" /\ frame.name \in ListMethods /\ outcome.kind = "response"
        /\ Is2xx(outcome.response) /\ ParsedBody.ok
        /\ ParsedBody.val = Envelope(Unwrapped(ParsedBody.val).v))
        => /\ result.kind = "return"
           /\ result.value.t = "list"
           /\ result.value = Unwrapped(ParsedBody.val)

RouteWrites ==
    {"create_route", "create_route_with_id", "update_route", "update_route_with_path"}

RouteVerb(name) ==
    CASE name = "create_route" -> POST
      [] name = "create_route_with_id" -> PUT
      [] OTHER -> PATCH

\* the URL of a route write without its query string
RouteUrl(ids) ==
    self.base_url \o <<"/", "routes">>
    \o (IF Len(ids) >= 1 THEN <<"/">> \o ids[1] ELSE <<>>)
    \o (IF Len(ids) >= 2 THEN <<"/">> \o ids[2] ELSE <<>>)

DigitValue(c) == CHOOSE d \in 0..9 : DigitChars[d + 1] = c

IsDecimal(s) ==
    /\ s # <<>>
    /\ \A i \in DOMAIN s : s[i] \in Range(DigitChars)
    /\ Len(s) > 1 => s[1] # "0"

RECURSIVE int_of(_)
int_of(s) ==
    IF s = <<>> THEN 0
    ELSE 10 * int_of(SubSeq(s, 1, Len(s) - 1)) + DigitValue(s[Len(s)])

\* C9: a route write with ttl = n requests the URL of the same write without
\* ttl followed by exactly ?ttl=<n> (n in decimal, 0 included); without ttl
\* the URL has no query string; verb and body do not depend on ttl.
C9_TtlQueryString ==
    (pc # "idle" /\ self.cls = "Admin" /\ frame.name \in RouteWrites)
        => LET url == wire[1].url
               base == RouteUrl(frame.ids)
               query == SubSeq(url, Len(base) + 1, Len(url))
           IN  /\ wire[1].verb = RouteVerb(frame.name)
               /\ wire[1].json = frame.data
               /\ SubSeq(url, 1, Len(base)) = base
               /\ IF frame.ttl = None
                  THEN query = <<>> /\ "?" \notin Range(url)
                  ELSE /\ Len(query) > 3
                       /\ SubSeq(query, 1, 3) = <<"?", "ttl", "=">>
                       /\ IsDecimal(SubSeq(query, 4, Len(query)))
                       /\ int_of(SubSeq(query, 4, Len(query))) = frame.ttl.v

C9_Witness ==
    /\ pc = "waiting"
    /\ frame.name = "create_route"
    /\ frame.ttl = PyInt(0)
    /\ wire[1].url = self.base_url \o <<"/", "routes", "?", "ttl", "=", "0">>

\* C10: a non-list call returns a value exactly when the status is 2xx and
\* the body is valid JSON, and the value is then the parsed body.
C10_ReturnsIffSuccessAndJson ==
    (pc = "done" /\ frame.name \notin ListMethods \cup {"_make_request"}
        /\ outcome.kind = "response")
        => /\ result.kind = "return" <=> (Is2xx(outcome.response) /\ ParsedBody.ok)
           /\ result.kind = "return" => result.value = ParsedBody.val


\* C12 as stated: for every verb in GET, POST, PUT, PATCH, DELETE the two
\* dispatchers, given the same base URL, key, endpoint, body and transport
\* outcome, issue the same request and end in the same result or error.
C12_SameDispatcherAllVerbs ==
    (pc # "idle" /\ upper(frame.method) \in {GET, POST, PUT, PATCH, DELETE})
        => /\ Admin_make_request(self, frame.method, frame.endpoint, frame.data)
                = Control_make_request(self, frame.method, frame.endpoint, frame.data)
           /\ (pc = "done" /\ outcome.kind # "none")
                => Admin_response(outcome, wire[1], requests_version)
                     = Control_response(outcome, wire[1], requests_version)

\* C12 amended: for every verb in GET, POST, PUT (in any letter case) the
\* two dispatchers issue the same request and end in the same result or
\* error; for PATCH and DELETE Admin issues the request and Control raises
\* ValueError without issuing one.
C12_SameDispatcherCommonVerbs ==
    /\ (pc # "idle" /\ upper(frame.method) \in {GET, POST, PUT})
            => /\ Admin_make_request(self, frame.method, frame.endpoint, frame.data)
                    = Control_make_request(self, frame.method, frame.endpoint, frame.data)
               /\ pc = "done"
                    => Admin_response(outcome, wire[1], requests_version)
                         = Control_response(outcome, wire[1], requests_version)
    /\ (pc # "idle" /\ upper(frame.method) \in {PATCH, DELETE})
            => /\ Admin_make_request(self, frame.method, frame.endpoint, frame.data).exc
                    = NoExc
               /\ Control_make_request(self, frame.method, frame.endpoint, frame.data).exc.type
                    = "ValueError"

C12_Witness ==
    /\ pc = "done"
    /\ self.cls = "Control"
    /\ frame.method = <<"p", "u", "t">>
    /\ outcome.response.status_code = 404
    /\ result.exc.type = "ConnectionError"

\* C13: no step of any call, successful or failed, changes the client's
\* configuration (base_url, api_key, headers): every call runs with the
\* configuration set at construction.
C13_ConfigurationFixed ==
    [][ /\ self' = self
        /\ (pc' # "idle")
             => /\ wire' # <<>> => /\ wire'[1].headers = self.headers
                                    /\ SubSeq(wire'[1].url, 1, Len(self.base_url))
                                          = self.base_url ]_vars

C13_Witness ==
    /\ pc = "done"
    /\ result.kind = "raise"
    /\ wire # <<>>
    /\ self = (IF self.cls = "Admin" THEN Admin_init(self.base_url, self.api_key)
                                      ELSE Control_init(self.base_url, self.api_key))

\* C14: every request carries X-API-KEY with the client's key and
\* Content-Type: application/json; it carries a JSON body only when the verb
\* is POST, PUT or PATCH, and then the data given; GET and DELETE requests
\* have no body even when data was passed.
C14_HeadersAndBody ==
    wire # <<>>
        => \A i \in DOMAIN wire :
              /\ DOMAIN wire[i].headers = {"Content-Type", "X-API-KEY"}
              /\ wire[i].headers["X-API-KEY"] = self.api_key
              /\ wire[i].headers["Content-Type"] = "application/json"
              /\ IF wire[i].verb \in {POST, PUT, PATCH}
                 THEN wire[i].json = frame.data
                 ELSE wire[i].json = None

C14_Witness ==
    /\ pc = "waiting"
    /\ frame.name = "_make_request"
    /\ upper(frame.method) = GET
    /\ frame.data # None
    /\ wire[1].json = None
    /\ wire[1].headers["X-API-KEY"] = self.api_key

\* the resource families that have a create-with-id (or create) and a
\* get-by-id operation, with their update and delete operations
Families ==
    { [create |-> "create_route_with_id", get |-> "get_route",
       update |-> "update_route", delete |-> "delete_route"],
      [create |-> "create_service_with_id", get |-> "get_service",
       update |-> "update_service", delete |-> "delete_service"],
      [create |-> "create_upstream_with_id", get |-> "get_upstream",
       update |-> "update_upstream", delete |-> "delete_upstream"],
      [create |-> "create_global_rule_with_id", get |-> "get_global_rule",
       update |-> "update_global_rule", delete |-> "delete_global_rule"],
      [create |-> "create_consumer_group_with_id", get |-> "get_consumer_group",
       update |-> "update_consumer_group", delete |-> "delete_consumer_group"],
      [create |-> "create_plugin_config_with_id", get |-> "get_plugin_config",
       update |-> "update_plugin_config", delete |-> "delete_plugin_config"],
      [create |-> "create_stream_route_with_id", get |-> "get_stream_route",
       update |-> "no such method", delete |-> "delete_stream_route"],
      [create |-> "create_proto_with_id", get |-> "get_proto",
       update |-> "no such method", delete |-> "delete_proto"],
      [create |-> "create_secret", get |-> "get_secret",
       update |-> "update_secret", delete |-> "delete_secret"] }

\* the identifiers two calls have in common are the same
SameIds(a, b) == \A i \in DOMAIN a \cap DOMAIN b : a[i] = b[i]

\* the mock server holds what the family's create call wrote, and the call
\* in progress is the named operation of the family with the same ids
After(f, name) ==
    /\ pc # "idle"
    /\ stored.by = f.create
    /\ frame.name = name
    /\ SameIds(stored.ids, frame.ids)

\* C11: against the mock server, after a family's create-with-id (or
\* create) call, the get, update and delete calls with the same
\* identifier(s) address the path the create call wrote to, and the get
\* call returns the body that was written.
C11_ReadsBackWhatWasWritten ==
    \A f \in Families :
        /\ After(f, f.get) \/ After(f, f.update) \/ After(f, f.delete)
              => UrlPath(wire[1].url) = stored.path
        /\ (After(f, f.get) /\ pc = "done") => result = Returned(stored.body)
====
